---- MODULE Spec2Model ----
(***************************************************************************)
(* Model of the transcription pipeline of src/app.py                       *)
(* (class AIPreProductionStudio): the upload entry point                   *)
(* transcribe_video_file, the URL entry point                              *)
(* transcribe_youtube_with_timestamps with its fallback                    *)
(* transcribe_youtube_alternative, and the display/export function         *)
(* display_transcript_with_timestamps.                                     *)
(*                                                                         *)
(* Times are integers in milliseconds (the code holds float seconds).      *)
(* Strings that are formatted or parsed are sequences of one-character     *)
(* strings.  The file system, the downloaders, the decoder and the two     *)
(* recognition engines are the environment: every call into them picks     *)
(* its outcome nondeterministically among the outcomes the call can have.  *)
(***************************************************************************)
EXTENDS Integers, Sequences, FiniteSets

\* ---------------------------------------------------------------- bounds

\* Longest segment list an engine returns in the model.
MaxSegs == 2
\* Largest uploaded payload length (bytes) in the model; 0 is the empty payload.
MaxPayload == 2
\* Largest start time (ms) of the single-segment transcripts handed to the display.
MaxStartMs == 125700
\* Number of sessions whose calls run concurrently.
MaxRequests == 2
\* Number of distinct names the tempfile module can hand out.
MaxNames == 4
\* Longest transcripts history of a session of several requests.
MaxHistory == 3
\* Largest number of scenes of the storyboard.
MaxScenes == 5

\* ---------------------------------------------------------------- data

\* Python's None for a path / an audio object that was never assigned.
NoPath == "None"
NoAudio == -1

\* Texts an engine can return (sequences of characters).
Texts == { <<"a">>, <<" ", "a", "b">>, <<"a", "\n", "b">>, <<"[", "1", "s", "]">> }

\* Texts of the cloud recogniser (recognize_google returns one line).
FlatTexts == { <<"a">>, <<" ", "a", "b">> }

\* Segment times (ms) an engine can report.
SegStarts == {0, 1234, 59999}
SegEnds == {0, 2000}

\* Durations (ms) the decoder can report: len(audio).
Durations == {0, 2000}

\* One raw engine segment: result['segments'][i].
EngineSegments == [start : SegStarts, end : SegEnds, text : Texts]

\* What model.transcribe can return as result['segments'].
EngineResults == UNION { [1..n -> EngineSegments] : n \in 0..MaxSegs }

\* Uploaded files: name extension and content length.
Extensions == {"wav", "mp4"}
UploadFiles == [ext : Extensions, size : 0..MaxPayload]

\* The value a call returns: None or a transcript_data dict.
None == [kind |-> "None", source |-> "", segments |-> <<>>]
TranscriptData(src, segs) == [kind |-> "transcript", source |-> src, segments |-> segs]

\* ---------------------------------------------------------------- state

VARIABLES
    pc,               \* position of the running call
    entry,            \* which entry point is running: "none", "upload", "url"
    video_file,       \* the uploaded file of an upload call
    fs,               \* temporary artifacts that exist on disk
    created,          \* temporary artifacts this call has created (history)
    video_path,       \* local of transcribe_video_file
    audio_path,       \* local of transcribe_video_file
    audio,            \* len(audio) in ms, NoAudio before the decode
    text,             \* text returned by recognize_google
    temp_dir,         \* local of transcribe_youtube_with_timestamps
    downloaded,       \* what the primary download left in temp_dir
    temp_path,        \* local of transcribe_youtube_alternative
    result,           \* result['segments'] of the whisper call
    ret,              \* the value the call returns
    pipeline_result,  \* the value the pipeline had decided on before cleanup (history)
    cause,            \* the failures of the call, in order (history)
    cleanup_failed,   \* a deletion of a temporary artifact raised (history)
    engine_calls,     \* invocations of a transcription engine (history)
    primary_attempts, \* attempts of the yt-dlp strategy (history)
    fallback_attempts,\* attempts of the pytube strategy (history)
    removals,         \* the paths a removal was called on, in order (history)
    transcripts,      \* st.session_state.transcripts
    current_transcript, \* st.session_state.current_transcript
    labels,           \* the timestamp labels the display wrote
    transcript_text,  \* the data of the download button
    script_content,   \* st.session_state.script_content (entries added by the display)
    shown,            \* the display has run
    storyboard_scenes, \* st.session_state.storyboard_scenes
    disk,             \* concurrent sessions: the owner of each temporary name, 0 if absent
    req,              \* concurrent sessions: the locals of each session's running call
    foreign_access    \* concurrent sessions: a call touched another call's artifact (history)

pipeVars == << pc, entry, video_file, fs, created, video_path, audio_path, audio, text,
               temp_dir, downloaded, temp_path, result, ret, pipeline_result, cause,
               cleanup_failed, engine_calls, primary_attempts, fallback_attempts,
               removals >>

uiVars == << transcripts, current_transcript, labels, transcript_text, script_content,
             shown, storyboard_scenes >>

concVars == << disk, req, foreign_access >>

vars == << pc, entry, video_file, fs, created, video_path, audio_path, audio, text,
           temp_dir, downloaded, temp_path, result, ret, pipeline_result, cause,
           cleanup_failed, engine_calls, primary_attempts, fallback_attempts,
           removals, transcripts, current_transcript, labels, transcript_text,
           script_content, shown, storyboard_scenes, disk, req, foreign_access >>

NoFile == [ext |-> "", size |-> 0]

PipeInit ==
    /\ pc = "idle"
    /\ entry = "none"
    /\ video_file = NoFile
    /\ fs = {}
    /\ created = {}
    /\ video_path = NoPath
    /\ audio_path = NoPath
    /\ audio = NoAudio
    /\ text = <<>>
    /\ temp_dir = NoPath
    /\ downloaded = "none"
    /\ temp_path = NoPath
    /\ result = <<>>
    /\ ret = None
    /\ pipeline_result = None
    /\ cause = << >>
    /\ cleanup_failed = FALSE
    /\ engine_calls = 0
    /\ primary_attempts = 0
    /\ fallback_attempts = 0
    /\ removals = << >>

UiIdle ==
    /\ transcripts = << >>
    /\ current_transcript = None
    /\ labels = <<>>
    /\ transcript_text = <<>>
    /\ script_content = <<>>
    /\ shown = FALSE
    /\ storyboard_scenes = << >>

\* Names the tempfile module can give to a temporary file or directory, and the
\* sessions whose calls run at the same time (used by the concurrent specification).
Names == 1..MaxNames
\* None as the value of a path local of a concurrent call.
NoName == 0
Requests == 1..MaxRequests

\* The locals of a call that has not started.
IdleRequest ==
    [pc |-> "idle", video_path |-> NoName, audio_path |-> NoName, temp_dir |-> NoName,
     temp_path |-> NoName]

ConcIdle ==
    /\ disk = [n \in Names |-> 0]
    /\ req = [p \in Requests |-> IdleRequest]
    /\ foreign_access = FALSE

Init == PipeInit /\ UiIdle /\ ConcIdle

\* ------------------------------------------------- transcribe_video_file

\* An exception caught by one of the except clauses of an entry point:
\* the call is going to return None, after its finally block.
Fail(why, finally) ==
    /\ ret' = None
    /\ pipeline_result' = None
    /\ cause' = Append(cause, why)
    /\ pc' = finally

\* The UI calls transcribe_video_file(uploaded_file), only with a file that is
\* not None.
StartUpload ==
    /\ pc = "idle"
    /\ \E f \in UploadFiles :
        /\ video_file' = f
        /\ entry' = "upload"
        /\ pc' = "u_save"
    /\ UNCHANGED << fs, created, video_path, audio_path, audio, text, temp_dir,
                    downloaded, temp_path, result, ret, pipeline_result, cause,
                    cleanup_failed, engine_calls, primary_attempts, fallback_attempts >>
    /\ UNCHANGED << removals, uiVars, concVars >>

\* Step 1: NamedTemporaryFile(delete=False), write, then video_path = tmp_video.name.
\* The file exists as soon as NamedTemporaryFile returns; video_path is assigned only
\* after the write.
U_Save ==
    /\ pc = "u_save"
    /\ \E r \in {"create_fail", "write_fail", "ok"} :
        \/ /\ r = "create_fail"
           /\ Fail("SaveError", "u_finally")
           /\ UNCHANGED << fs, created, video_path >>
        \/ /\ r = "write_fail"
           /\ fs' = fs \cup {"video"}
           /\ created' = created \cup {"video"}
           /\ Fail("SaveError", "u_finally")
           /\ UNCHANGED video_path
        \/ /\ r = "ok"
           /\ fs' = fs \cup {"video"}
           /\ created' = created \cup {"video"}
           /\ video_path' = "video"
           /\ pc' = "u_decode"
           /\ UNCHANGED << ret, pipeline_result, cause >>
    /\ UNCHANGED << entry, video_file, audio_path, audio, text, temp_dir, downloaded,
                    temp_path, result, cleanup_failed, engine_calls, primary_attempts,
                    fallback_attempts >>
    /\ UNCHANGED << removals, uiVars, concVars >>

\* What AudioSegment.from_file can do with a payload of the given size: a zero-byte
\* file has nothing to decode; any other payload decodes or not, to any duration.
DecodeOutcomes(size) ==
    IF size = 0 THEN {"fail"} ELSE {"fail", "ok"}

\* Step 2: audio = AudioSegment.from_file(video_path), the same call in both branches.
U_Decode ==
    /\ pc = "u_decode"
    /\ \E r \in DecodeOutcomes(video_file.size) :
        \/ /\ r = "fail"
           /\ Fail("DecodeFailed", "u_finally")
           /\ UNCHANGED audio
        \/ /\ r = "ok"
           /\ \E d \in Durations : audio' = d
           /\ pc' = "u_export"
           /\ UNCHANGED << ret, pipeline_result, cause >>
    /\ UNCHANGED << entry, video_file, fs, created, video_path, audio_path, text, temp_dir,
                    downloaded, temp_path, result, cleanup_failed, engine_calls,
                    primary_attempts, fallback_attempts >>
    /\ UNCHANGED << removals, uiVars, concVars >>

\* Step 3: NamedTemporaryFile(suffix=".wav"), audio_path = tmp_audio.name, audio.export.
U_Export ==
    /\ pc = "u_export"
    /\ \E r \in {"create_fail", "export_fail", "ok"} :
        \/ /\ r = "create_fail"
           /\ Fail("ExportFailed", "u_finally")
           /\ UNCHANGED << fs, created, audio_path >>
        \/ /\ r = "export_fail"
           /\ fs' = fs \cup {"audio"}
           /\ created' = created \cup {"audio"}
           /\ audio_path' = "audio"
           /\ Fail("ExportFailed", "u_finally")
        \/ /\ r = "ok"
           /\ fs' = fs \cup {"audio"}
           /\ created' = created \cup {"audio"}
           /\ audio_path' = "audio"
           /\ pc' = "u_recognize"
           /\ UNCHANGED << ret, pipeline_result, cause >>
    /\ UNCHANGED << entry, video_file, video_path, audio, text, temp_dir, downloaded,
                    temp_path, result, cleanup_failed, engine_calls, primary_attempts,
                    fallback_attempts >>
    /\ UNCHANGED << removals, uiVars, concVars >>

\* Step 4: open the WAV file, record it and call recognize_google.  Nothing looks
\* at the duration of the audio before the engine is called.
U_Recognize ==
    /\ pc = "u_recognize"
    /\ \E r \in {"open_fail", "ok", "UnknownValueError", "RequestError", "Exception"} :
        \/ /\ r = "open_fail"
           /\ Fail("Exception", "u_finally")
           /\ UNCHANGED << text, engine_calls >>
        \/ /\ r = "ok"
           /\ \E t \in FlatTexts : text' = t
           /\ engine_calls' = engine_calls + 1
           /\ pc' = "u_assemble"
           /\ UNCHANGED << ret, pipeline_result, cause >>
        \/ /\ r \in {"UnknownValueError", "RequestError", "Exception"}
           /\ engine_calls' = engine_calls + 1
           /\ Fail(r, "u_finally")
           /\ UNCHANGED text
    /\ UNCHANGED << entry, video_file, fs, created, video_path, audio_path, audio, temp_dir,
                    downloaded, temp_path, result, cleanup_failed, primary_attempts,
                    fallback_attempts >>
    /\ UNCHANGED << removals, uiVars, concVars >>

\* The upload path with the segment list left empty.
UploadSegments_NoSegment(duration, t) == << >>

\* transcript_data["segments"] of the upload path: one segment from 0 to len(audio)/1000.
UploadSegments(duration, t) ==
    << [start |-> 0, end |-> duration, text |-> t, words |-> <<>>] >>

\* Build transcript_data and return it.
U_Assemble ==
    /\ pc = "u_assemble"
    /\ ret' = TranscriptData("upload", UploadSegments(audio, text))
    /\ pipeline_result' = ret'
    /\ pc' = "u_finally"
    /\ UNCHANGED << entry, video_file, fs, created, video_path, audio_path, audio, text,
                    temp_dir, downloaded, temp_path, result, cause, cleanup_failed,
                    engine_calls, primary_attempts, fallback_attempts >>
    /\ UNCHANGED << removals, uiVars, concVars >>

\* The finally block: one try around both removals, so an error removing the first
\* file skips the second.  failV / failA: os.remove raises for that file.
\* tried: the paths os.remove was called on.
UploadCleanup(files, vpath, apath, failV, failA) ==
    LET tryV  == vpath # NoPath /\ vpath \in files
        errV  == tryV /\ failV
        afterV == IF tryV /\ ~failV THEN files \ {vpath} ELSE files
        tryA  == ~errV /\ apath # NoPath /\ apath \in afterV
        errA  == tryA /\ failA
        afterA == IF tryA /\ ~failA THEN afterV \ {apath} ELSE afterV
    IN  [files |-> afterA, warned |-> errV \/ errA,
         tried |-> (IF tryV THEN << vpath >> ELSE << >>)
                   \o (IF tryA THEN << apath >> ELSE << >>)]

U_Finally ==
    /\ pc = "u_finally"
    /\ \E failV \in BOOLEAN, failA \in BOOLEAN :
        LET c == UploadCleanup(fs, video_path, audio_path, failV, failA)
        IN  /\ fs' = c.files
            /\ cleanup_failed' = c.warned
            /\ removals' = removals \o c.tried
    /\ pc' = "done"
    /\ UNCHANGED << entry, video_file, created, video_path, audio_path, audio, text,
                    temp_dir, downloaded, temp_path, result, ret, pipeline_result, cause,
                    engine_calls, primary_attempts, fallback_attempts >>
    /\ UNCHANGED << uiVars, concVars >>

\* ------------------------------------ transcribe_youtube_with_timestamps

\* A URL request that goes to the fallback strategy first.
StartURL_FallbackFirst ==
    /\ pc = "idle"
    /\ entry' = "url"
    /\ pc' = "a_stream"
    /\ UNCHANGED << video_file, fs, created, video_path, audio_path, audio, text, temp_dir,
                    downloaded, temp_path, result, ret, pipeline_result, cause,
                    cleanup_failed, engine_calls, primary_attempts, fallback_attempts >>
    /\ UNCHANGED << removals, uiVars, concVars >>

\* The UI calls transcribe_youtube_with_timestamps(youtube_url).
StartURL ==
    /\ pc = "idle"
    /\ entry' = "url"
    /\ pc' = "y_mkdtemp"
    /\ UNCHANGED << video_file, fs, created, video_path, audio_path, audio, text, temp_dir,
                    downloaded, temp_path, result, ret, pipeline_result, cause,
                    cleanup_failed, engine_calls, primary_attempts, fallback_attempts >>
    /\ UNCHANGED << removals, uiVars, concVars >>

\* temp_dir = tempfile.mkdtemp()
Y_Mkdtemp ==
    /\ pc = "y_mkdtemp"
    /\ \E r \in {"fail", "ok"} :
        \/ /\ r = "fail"
           /\ Fail("Exception", "y_finally")
           /\ UNCHANGED << fs, created, temp_dir >>
        \/ /\ r = "ok"
           /\ fs' = fs \cup {"dir"}
           /\ created' = created \cup {"dir"}
           /\ temp_dir' = "dir"
           /\ pc' = "y_extract"
           /\ UNCHANGED << ret, pipeline_result, cause >>
    /\ UNCHANGED << entry, video_file, video_path, audio_path, audio, text, downloaded,
                    temp_path, result, cleanup_failed, engine_calls, primary_attempts,
                    fallback_attempts >>
    /\ UNCHANGED << removals, uiVars, concVars >>

\* The primary strategy starts: ydl.extract_info(video_url, download=False).
\* A DownloadError goes to the handler that calls the fallback; any other
\* exception goes to the generic handler.
Y_Extract ==
    /\ pc = "y_extract"
    /\ primary_attempts' = primary_attempts + 1
    /\ \E r \in {"ok", "DownloadError", "Exception"} :
        \/ /\ r = "ok"
           /\ pc' = "y_download"
           /\ UNCHANGED << ret, pipeline_result, cause >>
        \/ /\ r = "DownloadError"
           /\ cause' = Append(cause, "DownloadError")
           /\ pc' = "y_except_download"
           /\ UNCHANGED << ret, pipeline_result >>
        \/ /\ r = "Exception"
           /\ Fail("Exception", "y_finally")
    /\ UNCHANGED << entry, video_file, fs, created, video_path, audio_path, audio, text,
                    temp_dir, downloaded, temp_path, result, cleanup_failed, engine_calls,
                    fallback_attempts >>
    /\ UNCHANGED << removals, uiVars, concVars >>

\* ydl.download([video_url]) and the listing of temp_dir.  A listing without an
\* audio file, or a listed file that is gone at the exists() check, returns None
\* from inside the try; a file of any size, empty included, goes on to the engine.
Y_Download ==
    /\ pc = "y_download"
    /\ \E r \in {"nofile", "vanished", "empty", "nonempty", "DownloadError", "Exception"} :
        \/ /\ r \in {"nofile", "vanished"}
           /\ Fail("NoAudioFile", "y_finally")
           /\ UNCHANGED downloaded
        \/ /\ r \in {"empty", "nonempty"}
           /\ downloaded' = r
           /\ pc' = "y_transcribe"
           /\ UNCHANGED << ret, pipeline_result, cause >>
        \/ /\ r = "DownloadError"
           /\ cause' = Append(cause, "DownloadError")
           /\ pc' = "y_except_download"
           /\ UNCHANGED << ret, pipeline_result, downloaded >>
        \/ /\ r = "Exception"
           /\ Fail("Exception", "y_finally")
           /\ UNCHANGED downloaded
    /\ UNCHANGED << entry, video_file, fs, created, video_path, audio_path, audio, text,
                    temp_dir, temp_path, result, cleanup_failed, engine_calls,
                    primary_attempts, fallback_attempts >>
    /\ UNCHANGED << removals, uiVars, concVars >>

\* whisper.load_model("base") and model.transcribe(...): shared by both strategies.
\* next: where a result goes; finally: where a failure goes.
Whisper(next, finally) ==
    \E r \in {"load_fail", "fail", "ok"} :
        \/ /\ r = "load_fail"
           /\ Fail("ModelLoadFailed", finally)
           /\ UNCHANGED << result, engine_calls >>
        \/ /\ r = "fail"
           /\ engine_calls' = engine_calls + 1
           /\ Fail("EngineFailed", finally)
           /\ UNCHANGED result
        \/ /\ r = "ok"
           /\ engine_calls' = engine_calls + 1
           /\ \E segs \in EngineResults : result' = segs
           /\ pc' = next
           /\ UNCHANGED << ret, pipeline_result, cause >>

\* The primary strategy downloading again after a failure of the engine.
Y_Transcribe_DownloadsAgain ==
    /\ pc = "y_transcribe"
    /\ Whisper("y_assemble", "y_download")
    /\ UNCHANGED << entry, video_file, fs, created, video_path, audio_path, audio, text,
                    temp_dir, downloaded, temp_path, cleanup_failed, primary_attempts,
                    fallback_attempts >>
    /\ UNCHANGED << removals, uiVars, concVars >>

Y_Transcribe ==
    /\ pc = "y_transcribe"
    /\ Whisper("y_assemble", "y_finally")
    /\ UNCHANGED << entry, video_file, fs, created, video_path, audio_path, audio, text,
                    temp_dir, downloaded, temp_path, cleanup_failed, primary_attempts,
                    fallback_attempts >>
    /\ UNCHANGED << removals, uiVars, concVars >>

\* The copying loop losing the last segment of the engine's result.
CopySegments_DropsLast(segs) ==
    [i \in 1..(Len(segs) - 1) |->
        [start |-> segs[i].start, end |-> segs[i].end, text |-> segs[i].text,
         words |-> <<>>]]

\* The loop that copies result['segments'] into transcript_data['segments'].
CopySegments(segs) ==
    [i \in 1..Len(segs) |->
        [start |-> segs[i].start, end |-> segs[i].end, text |-> segs[i].text,
         words |-> <<>>]]

\* The entry point writing its result into the session state itself.
Y_Assemble_StoresResult ==
    /\ pc = "y_assemble"
    /\ ret' = TranscriptData("url", CopySegments(result))
    /\ pipeline_result' = ret'
    /\ current_transcript' = ret'
    /\ pc' = "y_finally"
    /\ UNCHANGED << entry, video_file, fs, created, video_path, audio_path, audio, text,
                    temp_dir, downloaded, temp_path, result, cause, cleanup_failed,
                    engine_calls, primary_attempts, fallback_attempts >>
    /\ UNCHANGED << removals, transcripts, labels, transcript_text, script_content,
                    shown, storyboard_scenes, concVars >>

Y_Assemble ==
    /\ pc = "y_assemble"
    /\ ret' = TranscriptData("url", CopySegments(result))
    /\ pipeline_result' = ret'
    /\ pc' = "y_finally"
    /\ UNCHANGED << entry, video_file, fs, created, video_path, audio_path, audio, text,
                    temp_dir, downloaded, temp_path, result, cause, cleanup_failed,
                    engine_calls, primary_attempts, fallback_attempts >>
    /\ UNCHANGED << removals, uiVars, concVars >>

\* The DownloadError handler returning None without calling the fallback.
Y_ExceptDownload_NoFallback ==
    /\ pc = "y_except_download"
    /\ ret' = None
    /\ pipeline_result' = None
    /\ pc' = "y_finally"
    /\ UNCHANGED << entry, video_file, fs, created, video_path, audio_path, audio, text,
                    temp_dir, downloaded, temp_path, result, cause, cleanup_failed,
                    engine_calls, primary_attempts, fallback_attempts >>
    /\ UNCHANGED << removals, uiVars, concVars >>

\* except yt_dlp.DownloadError: return self.transcribe_youtube_alternative(video_url).
\* The fallback runs inside the handler, before the finally block of the primary.
Y_ExceptDownload ==
    /\ pc = "y_except_download"
    /\ pc' = "a_stream"
    /\ UNCHANGED << entry, video_file, fs, created, video_path, audio_path, audio, text,
                    temp_dir, downloaded, temp_path, result, ret, pipeline_result, cause,
                    cleanup_failed, engine_calls, primary_attempts, fallback_attempts >>
    /\ UNCHANGED << removals, uiVars, concVars >>

\* The finally block: shutil.rmtree(temp_dir) with every error swallowed.
Y_Finally ==
    /\ pc = "y_finally"
    /\ \E fail \in BOOLEAN :
        IF temp_dir # NoPath /\ temp_dir \in fs
        THEN /\ removals' = Append(removals, temp_dir)
             /\ IF fail
                THEN /\ cleanup_failed' = TRUE
                     /\ UNCHANGED fs
                ELSE /\ fs' = fs \ {temp_dir}
                     /\ UNCHANGED cleanup_failed
        ELSE UNCHANGED << fs, cleanup_failed, removals >>
    /\ pc' = "done"
    /\ UNCHANGED << entry, video_file, created, video_path, audio_path, audio, text,
                    temp_dir, downloaded, temp_path, result, ret, pipeline_result, cause,
                    engine_calls, primary_attempts, fallback_attempts >>
    /\ UNCHANGED << uiVars, concVars >>

\* ------------------------------------------- transcribe_youtube_alternative
\* Every return of the fallback goes back into the handler of the primary, whose
\* return then runs the primary's finally block.

\* The fallback strategy starts: YouTube(video_url), streams.filter(...).first().
A_Stream ==
    /\ pc = "a_stream"
    /\ fallback_attempts' = fallback_attempts + 1
    /\ \E r \in {"ok", "no_stream", "Exception"} :
        \/ /\ r = "ok"
           /\ pc' = "a_tempfile"
           /\ UNCHANGED << ret, pipeline_result, cause >>
        \/ /\ r = "no_stream"
           /\ Fail("NoAudioStream", "y_finally")
        \/ /\ r = "Exception"
           /\ Fail("FallbackException", "y_finally")
    /\ UNCHANGED << entry, video_file, fs, created, video_path, audio_path, audio, text,
                    temp_dir, downloaded, temp_path, result, cleanup_failed, engine_calls,
                    primary_attempts >>
    /\ UNCHANGED << removals, uiVars, concVars >>

\* with tempfile.NamedTemporaryFile(delete=False, suffix='.mp4'): temp_path = name
A_TempFile ==
    /\ pc = "a_tempfile"
    /\ \E r \in {"fail", "ok"} :
        \/ /\ r = "fail"
           /\ Fail("FallbackException", "y_finally")
           /\ UNCHANGED << fs, created, temp_path >>
        \/ /\ r = "ok"
           /\ fs' = fs \cup {"alt"}
           /\ created' = created \cup {"alt"}
           /\ temp_path' = "alt"
           /\ pc' = "a_download"
           /\ UNCHANGED << ret, pipeline_result, cause >>
    /\ UNCHANGED << entry, video_file, video_path, audio_path, audio, text, temp_dir,
                    downloaded, result, cleanup_failed, engine_calls, primary_attempts,
                    fallback_attempts >>
    /\ UNCHANGED << removals, uiVars, concVars >>

\* audio_stream.download(filename=temp_path) and the size check.  Neither the
\* exception nor the "file is empty" return removes temp_path.
A_Download ==
    /\ pc = "a_download"
    /\ \E r \in {"Exception", "empty", "nonempty"} :
        \/ /\ r = "Exception"
           /\ Fail("FallbackException", "y_finally")
        \/ /\ r = "empty"
           /\ Fail("EmptyDownload", "y_finally")
        \/ /\ r = "nonempty"
           /\ pc' = "a_transcribe"
           /\ UNCHANGED << ret, pipeline_result, cause >>
    /\ UNCHANGED << entry, video_file, fs, created, video_path, audio_path, audio, text,
                    temp_dir, downloaded, temp_path, result, cleanup_failed, engine_calls,
                    primary_attempts, fallback_attempts >>
    /\ UNCHANGED << removals, uiVars, concVars >>

\* The fallback calling the engine again after a failure of the engine.
A_Transcribe_TriesAgain ==
    /\ pc = "a_transcribe"
    /\ Whisper("a_assemble", "a_transcribe")
    /\ UNCHANGED << entry, video_file, fs, created, video_path, audio_path, audio, text,
                    temp_dir, downloaded, temp_path, cleanup_failed, primary_attempts,
                    fallback_attempts >>
    /\ UNCHANGED << removals, uiVars, concVars >>

A_Transcribe ==
    /\ pc = "a_transcribe"
    /\ Whisper("a_assemble", "y_finally")
    /\ UNCHANGED << entry, video_file, fs, created, video_path, audio_path, audio, text,
                    temp_dir, downloaded, temp_path, cleanup_failed, primary_attempts,
                    fallback_attempts >>
    /\ UNCHANGED << removals, uiVars, concVars >>

\* Build transcript_data, then os.unlink(temp_path) inside the try: an error of
\* the unlink is caught by "except Exception" and the call returns None.
A_Assemble ==
    /\ pc = "a_assemble"
    /\ pipeline_result' = TranscriptData("url", CopySegments(result))
    /\ \E fail \in BOOLEAN :
        IF fail
        THEN /\ cleanup_failed' = TRUE
             /\ ret' = None
             /\ cause' = Append(cause, "UnlinkFailed")
             /\ UNCHANGED fs
        ELSE /\ fs' = fs \ {temp_path}
             /\ ret' = pipeline_result'
             /\ UNCHANGED << cleanup_failed, cause >>
    /\ removals' = Append(removals, temp_path)
    /\ pc' = "y_finally"
    /\ UNCHANGED << entry, video_file, created, video_path, audio_path, audio, text,
                    temp_dir, downloaded, temp_path, result, engine_calls,
                    primary_attempts, fallback_attempts >>
    /\ UNCHANGED << uiVars, concVars >>

\* ------------------------------------ display_transcript_with_timestamps

Digits10 == << "0", "1", "2", "3", "4", "5", "6", "7", "8", "9" >>
DigitChar(d) == Digits10[d + 1]

\* str(n) for a natural number.
RECURSIVE DecStr(_)
DecStr(n) == IF n < 10 THEN << DigitChar(n) >> ELSE DecStr(n \div 10) \o << DigitChar(n % 10) >>

\* f"{n:02d}": at least two digits, zero-padded.
Pad2(n) == IF n < 10 THEN << "0" >> \o DecStr(n) ELSE DecStr(n)

\* minutes = int(segment['start'] // 60), the start being in ms here.
Minutes(start) == start \div 60000

\* The seconds rounded to nearest instead of truncated.
Seconds_Rounded(start) == ((start % 60000) + 500) \div 1000

\* seconds = int(segment['start'] % 60)
Seconds(start) == (start % 60000) \div 1000

\* timestamp = f"{minutes:02d}:{seconds:02d}"
FormatTimestamp(start) == Pad2(Minutes(start)) \o << ":" >> \o Pad2(Seconds(start))

\* The hundredths that "%.2f" prints for a start in ms.  The format rounds the
\* float's binary value to nearest; for a decimal tie (ms ending in 5) the binary
\* expansion of the float decides the direction, so the caller picks it.
Centis(start, up) ==
    IF start % 10 = 5
    THEN (IF up THEN start \div 10 + 1 ELSE start \div 10)
    ELSE (start + 5) \div 10

\* The start printed with one decimal instead of two.
FormatFixed1(start, up) ==
    LET c == Centis(start, up)
    IN  DecStr(c \div 100) \o << ".", DigitChar((c % 100) \div 10) >>

\* f"{seg['start']:.2f}"
FormatFixed2(start, up) ==
    LET c == Centis(start, up)
    IN  DecStr(c \div 100) \o << ".", DigitChar((c % 100) \div 10), DigitChar(c % 10) >>

\* f"[{seg['start']:.2f}s] {seg['text']}"
ExportLine(seg, up) ==
    << "[" >> \o FormatFixed2(seg.start, up) \o << "s", "]", " " >> \o seg.text

\* "\n".join(lines)
RECURSIVE JoinLines(_)
JoinLines(lines) ==
    IF Len(lines) = 0 THEN << >>
    ELSE IF Len(lines) = 1 THEN lines[1]
    ELSE lines[1] \o << "\n" >> \o JoinLines(Tail(lines))

\* transcript_text of the download button.
ToPlainText(segs, ups) ==
    JoinLines([i \in 1..Len(segs) |-> ExportLine(segs[i], ups[i])])

\* The directions of the decimal ties of the starts of segs.
TieChoices(segs) ==
    { u \in [1..Len(segs) -> BOOLEAN] :
        \A i \in 1..Len(segs) : segs[i].start % 10 # 5 => u[i] = FALSE }

\* The function runs on current_transcript whenever that is set: one label per
\* segment and the text of the export.
Display ==
    /\ current_transcript.kind = "transcript"
    /\ ~shown
    /\ labels' = [i \in 1..Len(current_transcript.segments) |->
                    FormatTimestamp(current_transcript.segments[i].start)]
    /\ \E ups \in TieChoices(current_transcript.segments) :
        transcript_text' = ToPlainText(current_transcript.segments, ups)
    /\ shown' = TRUE
    /\ UNCHANGED << transcripts, current_transcript, script_content, storyboard_scenes >>
    /\ UNCHANGED << pipeVars, concVars >>

\* Reading the export back, line by line, as "[<float>s] <text>".

DigitVal(c) == CHOOSE d \in 0..9 : Digits10[d + 1] = c
IsDigit(c) == \E d \in 0..9 : Digits10[d + 1] = c

RECURSIVE DecVal(_)
DecVal(ds) ==
    IF Len(ds) = 0 THEN 0
    ELSE DecVal(SubSeq(ds, 1, Len(ds) - 1)) * 10 + DigitVal(ds[Len(ds)])

\* The lines of a text: nothing for the empty text, else the pieces between "\n".
RECURSIVE SplitLines(_)
SplitLines(s) ==
    IF Len(s) = 0 THEN << >>
    ELSE IF \A i \in 1..Len(s) : s[i] # "\n" THEN << s >>
    ELSE LET k == CHOOSE i \in 1..Len(s) : s[i] = "\n" /\ \A j \in 1..(i - 1) : s[j] # "\n"
             rest == SubSeq(s, k + 1, Len(s))
         IN  << SubSeq(s, 1, k - 1) >> \o (IF Len(rest) = 0 THEN << << >> >> ELSE SplitLines(rest))

\* A decimal numeral with at most three fractional digits, as milliseconds.
ParseFloatMs(num) ==
    LET dots == { i \in 1..Len(num) : num[i] = "." }
        k    == IF dots = {} THEN Len(num) + 1 ELSE CHOOSE i \in dots : TRUE
        ip   == SubSeq(num, 1, k - 1)
        fp   == SubSeq(num, k + 1, Len(num))
        wellFormed == /\ Cardinality(dots) <= 1
                      /\ Len(ip) + Len(fp) >= 1
                      /\ Len(fp) <= 3
                      /\ \A i \in 1..Len(num) : i \in dots \/ IsDigit(num[i])
        scale == IF Len(fp) = 1 THEN 100 ELSE IF Len(fp) = 2 THEN 10 ELSE 1
    IN  IF wellFormed
        THEN [ok |-> TRUE, ms |-> DecVal(ip) * 1000 + DecVal(fp) * scale]
        ELSE [ok |-> FALSE, ms |-> 0]

\* One line "[<float>s] <text>": the pair it holds, or ok = FALSE.
ParseLine(line) ==
    LET bad  == [ok |-> FALSE, start |-> 0, text |-> << >>]
        ends == { i \in 2..Len(line) : line[i] = "s" }
    IN  IF Len(line) < 4 \/ line[1] # "[" \/ ends = {} THEN bad
        ELSE LET k   == CHOOSE i \in ends : \A j \in ends : i <= j
                 num == ParseFloatMs(SubSeq(line, 2, k - 1))
             IN  IF k + 2 > Len(line) \/ line[k + 1] # "]" \/ line[k + 2] # " " \/ ~num.ok
                 THEN bad
                 ELSE [ok |-> TRUE, start |-> num.ms, text |-> SubSeq(line, k + 3, Len(line))]

\* The (start, text) pairs of an export, or ok = FALSE when a line does not parse.
ParseExport(s) ==
    LET lines  == SplitLines(s)
        parsed == [i \in 1..Len(lines) |-> ParseLine(lines[i])]
    IN  IF \A i \in 1..Len(lines) : parsed[i].ok
        THEN [ok |-> TRUE,
              pairs |-> [i \in 1..Len(lines) |->
                            [start |-> parsed[i].start, text |-> parsed[i].text]]]
        ELSE [ok |-> FALSE, pairs |-> << >>]

\* The (start, text) pairs of a segment list.
Pairs(segs) == [i \in 1..Len(segs) |-> [start |-> segs[i].start, text |-> segs[i].text]]

\* Starts (ms) of the long transcripts handed to the display: 100 minutes and more.
LongStarts == {5999999, 6000000}

\* The transcripts an entry point can have returned and the UI stored: what the
\* URL paths build from any engine result, ...
UrlTranscripts == { TranscriptData("url", CopySegments(r)) : r \in EngineResults }

\* ... what the upload path builds, ...
UploadTranscripts ==
    { TranscriptData("upload", UploadSegments(d, t)) : d \in Durations, t \in FlatTexts }

\* ... and one-segment engine results over a range of starts.
RangeTranscripts ==
    { TranscriptData("url", CopySegments(<< [start |-> s, end |-> s, text |-> << "a" >>] >>)) :
        s \in (0..MaxStartMs) \cup LongStarts }

InitDisplay ==
    /\ PipeInit
    /\ \/ current_transcript \in UrlTranscripts
       \/ current_transcript \in UploadTranscripts
       \/ current_transcript \in RangeTranscripts
    /\ transcripts = << current_transcript >>
    /\ ConcIdle
    /\ labels = << >>
    /\ transcript_text = << >>
    /\ script_content = << >>
    /\ shown = FALSE
    /\ storyboard_scenes = << >>

NextDisplay == Display

SpecDisplay == InitDisplay /\ [][NextDisplay]_vars

\* ------------------------------------------- render_transcription_section

\* The caller of both entry points: "if transcript_data:" appends the returned
\* dict to transcripts and makes it current_transcript (any dict is truthy, an
\* empty segment list included); None is only reported with st.error.
\* The caller appending a returned transcript without making it current.
Store_AppendOnly ==
    /\ pc = "done"
    /\ IF ret.kind = "transcript"
       THEN /\ transcripts' = Append(transcripts, ret)
            /\ UNCHANGED current_transcript
       ELSE UNCHANGED << transcripts, current_transcript >>
    /\ pc' = "returned"
    /\ UNCHANGED << entry, video_file, fs, created, video_path, audio_path, audio, text,
                    temp_dir, downloaded, temp_path, result, ret, pipeline_result, cause,
                    cleanup_failed, engine_calls, primary_attempts, fallback_attempts,
                    removals >>
    /\ UNCHANGED << labels, transcript_text, script_content, shown, storyboard_scenes,
                    concVars >>

Store ==
    /\ pc = "done"
    /\ IF ret.kind = "transcript"
       THEN /\ transcripts' = Append(transcripts, ret)
            /\ current_transcript' = ret
       ELSE UNCHANGED << transcripts, current_transcript >>
    /\ pc' = "returned"
    /\ UNCHANGED << entry, video_file, fs, created, video_path, audio_path, audio, text,
                    temp_dir, downloaded, temp_path, result, ret, pipeline_result, cause,
                    cleanup_failed, engine_calls, primary_attempts, fallback_attempts,
                    removals >>
    /\ UNCHANGED << labels, transcript_text, script_content, shown, storyboard_scenes,
                    concVars >>

\* ------------------------------------------------- a session of requests
\* One session issuing request after request.  An entry point leaves the
\* session state alone, so a request is followed here only by what it returns.

\* Values an entry point returns: None, an upload transcript, a URL transcript
\* without segments and a URL transcript with one segment.
SessionOutcomes ==
    { None,
      TranscriptData("upload", UploadSegments(2000, << "a" >>)),
      TranscriptData("url", CopySegments(<< >>)),
      TranscriptData("url",
          CopySegments(<< [start |-> 0, end |-> 2000, text |-> << "a" >>] >>)) }

\* A click on one of the two Transcribe buttons: the entry point runs and returns.
CallReturns ==
    /\ pc = "idle"
    /\ Len(transcripts) < MaxHistory
    /\ \E v \in SessionOutcomes, e \in {"upload", "url"} :
        /\ v.kind = "transcript" => e = v.source
        /\ entry' = e
        /\ ret' = v
    /\ pc' = "done"
    /\ UNCHANGED << video_file, fs, created, video_path, audio_path, audio, text,
                    temp_dir, downloaded, temp_path, result, pipeline_result, cause,
                    cleanup_failed, engine_calls, primary_attempts, fallback_attempts,
                    removals >>
    /\ UNCHANGED << uiVars, concVars >>

\* The script has finished; the next click runs it again with fresh locals.
Rerun ==
    /\ pc = "returned"
    /\ pc' = "idle"
    /\ entry' = "none"
    /\ ret' = None
    /\ UNCHANGED << video_file, fs, created, video_path, audio_path, audio, text,
                    temp_dir, downloaded, temp_path, result, pipeline_result, cause,
                    cleanup_failed, engine_calls, primary_attempts, fallback_attempts,
                    removals >>
    /\ UNCHANGED << uiVars, concVars >>

NextSession == CallReturns \/ Store \/ Rerun

SpecSession == Init /\ [][NextSession]_vars

\* ------------------------------------------------------------ storyboard
\* The scene list of the storyboard tab.  A scene is followed by its id and its
\* order; title, description and notes play no part in the operations.

\* default_scenes: four scenes with ids and orders 1 to 4.
DefaultScenes == [i \in 1..4 |-> [id |-> i, order |-> i]]

\* renumber_scenes: order = position in the list.
RenumberScenes(scenes) ==
    [i \in 1..Len(scenes) |-> [scenes[i] EXCEPT !.order = i]]

\* next(i for i, s in enumerate(scenes) if s['id'] == scene_id): the first match.
SceneIndex(scenes, scene_id) ==
    CHOOSE i \in 1..Len(scenes) :
        /\ scenes[i].id = scene_id
        /\ \A j \in 1..(i - 1) : scenes[j].id # scene_id

\* scenes[i], scenes[j] = scenes[j], scenes[i]
SwapScenes(scenes, i, j) ==
    [scenes EXCEPT ![i] = scenes[j], ![j] = scenes[i]]

\* The ids that have buttons on the page.
SceneIds == { storyboard_scenes[i].id : i \in 1..Len(storyboard_scenes) }

\* "id": len(st.session_state.storyboard_scenes) + 1
NewSceneId(scenes) == Len(scenes) + 1

\* render_storyboard_visualization on an empty list: the default scenes.
InitScenes ==
    /\ storyboard_scenes = << >>
    /\ storyboard_scenes' = DefaultScenes
    /\ UNCHANGED << transcripts, current_transcript, labels, transcript_text,
                    script_content, shown >>
    /\ UNCHANGED << pipeVars, concVars >>

\* The Add New Scene button: append a scene with id and order len + 1.
AddScene ==
    /\ storyboard_scenes # << >>
    /\ Len(storyboard_scenes) < MaxScenes
    /\ storyboard_scenes' =
          Append(storyboard_scenes,
                 [id |-> NewSceneId(storyboard_scenes),
                  order |-> Len(storyboard_scenes) + 1])
    /\ UNCHANGED << transcripts, current_transcript, labels, transcript_text,
                    script_content, shown >>
    /\ UNCHANGED << pipeVars, concVars >>

\* move_scene_up(scene_id)
MoveSceneUp ==
    /\ \E scene_id \in SceneIds :
        LET i == SceneIndex(storyboard_scenes, scene_id)
        IN  storyboard_scenes' =
              IF i > 1
              THEN RenumberScenes(SwapScenes(storyboard_scenes, i, i - 1))
              ELSE storyboard_scenes
    /\ UNCHANGED << transcripts, current_transcript, labels, transcript_text,
                    script_content, shown >>
    /\ UNCHANGED << pipeVars, concVars >>

\* move_scene_down(scene_id)
MoveSceneDown ==
    /\ \E scene_id \in SceneIds :
        LET i == SceneIndex(storyboard_scenes, scene_id)
        IN  storyboard_scenes' =
              IF i < Len(storyboard_scenes)
              THEN RenumberScenes(SwapScenes(storyboard_scenes, i, i + 1))
              ELSE storyboard_scenes
    /\ UNCHANGED << transcripts, current_transcript, labels, transcript_text,
                    script_content, shown >>
    /\ UNCHANGED << pipeVars, concVars >>

\* delete_scene(scene_id): keep the scenes with another id, renumber.
DeleteScene ==
    /\ \E scene_id \in SceneIds :
        storyboard_scenes' =
            RenumberScenes(SelectSeq(storyboard_scenes, LAMBDA s : s.id # scene_id))
    /\ UNCHANGED << transcripts, current_transcript, labels, transcript_text,
                    script_content, shown >>
    /\ UNCHANGED << pipeVars, concVars >>

NextStoryboard == InitScenes \/ AddScene \/ MoveSceneUp \/ MoveSceneDown \/ DeleteScene

SpecStoryboard == Init /\ [][NextStoryboard]_vars

\* ------------------------------------------------------ concurrent sessions
\* Calls of the entry points running at the same time, one per session, in one
\* process and one temporary directory.  Only the footprint on the file system
\* is followed: the names a call creates, reads, writes and removes.  Every
\* creation and every removal is a step of its own; consecutive reads and writes
\* of one path by one call are one step.  The sessions interleave freely.

\* A name generator that can hand out a name that is in use.
FreshNames_AnyName(d) == Names

\* The names tempfile can give: NamedTemporaryFile and mkdtemp create the name
\* exclusively and retry on a collision, so never a name that exists.
FreshNames(d) == { n \in Names : d[n] = 0 }

\* Call p creates the file or directory n.
Create(p, n) ==
    /\ disk' = [disk EXCEPT ![n] = p]
    /\ foreign_access' = (foreign_access \/ disk[n] \notin {0, p})

\* Call p reads or writes the path n.
Use(p, n) ==
    /\ foreign_access' = (foreign_access \/ disk[n] \notin {0, p})
    /\ UNCHANGED disk

\* Call p removes the path n; fail: the removal raises and n stays.
Remove(p, n, fail) ==
    /\ disk' = IF fail THEN disk ELSE [disk EXCEPT ![n] = 0]
    /\ foreign_access' = (foreign_access \/ disk[n] \notin {0, p})

\* Call p has returned: its locals are gone, what it left on disk stays.
AfterReturn == [IdleRequest EXCEPT !.pc = "done"]

\* Session p calls transcribe_video_file: NamedTemporaryFile(delete=False,
\* suffix=...), write, video_path = tmp_video.name
C_Save(p) ==
    /\ req[p].pc = "idle"
    /\ \E r \in {"create_fail", "write_fail", "ok"} :
        \/ /\ r = "create_fail"
           /\ req' = [req EXCEPT ![p].pc = "u_remove_video"]
           /\ UNCHANGED << disk, foreign_access >>
        \/ /\ r = "write_fail"
           /\ \E n \in FreshNames(disk) : Create(p, n)
           /\ req' = [req EXCEPT ![p].pc = "u_remove_video"]
        \/ /\ r = "ok"
           /\ \E n \in FreshNames(disk) :
                /\ Create(p, n)
                /\ req' = [req EXCEPT ![p].pc = "u_decode", ![p].video_path = n]
    /\ UNCHANGED << pipeVars, uiVars >>

\* AudioSegment.from_file(video_path)
C_Decode(p) ==
    /\ req[p].pc = "u_decode"
    /\ Use(p, req[p].video_path)
    /\ \E ok \in BOOLEAN :
        req' = [req EXCEPT ![p].pc = IF ok THEN "u_export" ELSE "u_remove_video"]
    /\ UNCHANGED << pipeVars, uiVars >>

\* NamedTemporaryFile(suffix=".wav"), audio_path = tmp_audio.name, audio.export
C_Export(p) ==
    /\ req[p].pc = "u_export"
    /\ \E r \in {"create_fail", "export_fail", "ok"} :
        \/ /\ r = "create_fail"
           /\ req' = [req EXCEPT ![p].pc = "u_remove_video"]
           /\ UNCHANGED << disk, foreign_access >>
        \/ /\ r \in {"export_fail", "ok"}
           /\ \E n \in FreshNames(disk) :
                /\ Create(p, n)
                /\ req' = [req EXCEPT ![p].audio_path = n,
                                      ![p].pc = IF r = "ok" THEN "u_recognize"
                                                ELSE "u_remove_video"]
    /\ UNCHANGED << pipeVars, uiVars >>

\* sr.AudioFile(audio_path) and the recognition; every outcome goes to the finally.
C_Recognize(p) ==
    /\ req[p].pc = "u_recognize"
    /\ Use(p, req[p].audio_path)
    /\ req' = [req EXCEPT ![p].pc = "u_remove_video"]
    /\ UNCHANGED << pipeVars, uiVars >>

\* finally: if video_path and os.path.exists(video_path): os.remove(video_path);
\* an error leaves the try, past the removal of audio_path.  Nothing reads
\* video_path after this statement, so the local is dropped here.
C_RemoveVideo(p) ==
    /\ req[p].pc = "u_remove_video"
    /\ IF req[p].video_path # NoName /\ disk[req[p].video_path] # 0
       THEN \E fail \in BOOLEAN :
                /\ Remove(p, req[p].video_path, fail)
                /\ req' = IF fail THEN [req EXCEPT ![p] = AfterReturn]
                          ELSE [req EXCEPT ![p].pc = "u_remove_audio",
                                           ![p].video_path = NoName]
       ELSE /\ req' = [req EXCEPT ![p].pc = "u_remove_audio", ![p].video_path = NoName]
            /\ UNCHANGED << disk, foreign_access >>
    /\ UNCHANGED << pipeVars, uiVars >>

\* finally: if audio_path and os.path.exists(audio_path): os.remove(audio_path)
C_RemoveAudio(p) ==
    /\ req[p].pc = "u_remove_audio"
    /\ IF req[p].audio_path # NoName /\ disk[req[p].audio_path] # 0
       THEN \E fail \in BOOLEAN : Remove(p, req[p].audio_path, fail)
       ELSE UNCHANGED << disk, foreign_access >>
    /\ req' = [req EXCEPT ![p] = AfterReturn]
    /\ UNCHANGED << pipeVars, uiVars >>

\* Session p calls transcribe_youtube_with_timestamps: temp_dir = tempfile.mkdtemp()
C_Mkdtemp(p) ==
    /\ req[p].pc = "idle"
    /\ \E r \in {"fail", "ok"} :
        \/ /\ r = "fail"
           /\ req' = [req EXCEPT ![p].pc = "y_rmtree"]
           /\ UNCHANGED << disk, foreign_access >>
        \/ /\ r = "ok"
           /\ \E n \in FreshNames(disk) :
                /\ Create(p, n)
                /\ req' = [req EXCEPT ![p].pc = "y_download", ![p].temp_dir = n]
    /\ UNCHANGED << pipeVars, uiVars >>

\* extract_info, download, the listing of temp_dir and model.transcribe: yt-dlp
\* writes below temp_dir (outtmpl) and the engine reads the file found there.  A
\* DownloadError calls the fallback; every other outcome goes to the finally.
C_Download(p) ==
    /\ req[p].pc = "y_download"
    /\ Use(p, req[p].temp_dir)
    /\ \E r \in {"DownloadError", "other"} :
        req' = [req EXCEPT ![p].pc = IF r = "DownloadError" THEN "a_tempfile"
                                     ELSE "y_rmtree"]
    /\ UNCHANGED << pipeVars, uiVars >>

\* The fallback: stream lookup, then NamedTemporaryFile(delete=False, suffix='.mp4')
C_AltTempFile(p) ==
    /\ req[p].pc = "a_tempfile"
    /\ \E r \in {"fail", "ok"} :
        \/ /\ r = "fail"
           /\ req' = [req EXCEPT ![p].pc = "y_rmtree"]
           /\ UNCHANGED << disk, foreign_access >>
        \/ /\ r = "ok"
           /\ \E n \in FreshNames(disk) :
                /\ Create(p, n)
                /\ req' = [req EXCEPT ![p].pc = "a_download", ![p].temp_path = n]
    /\ UNCHANGED << pipeVars, uiVars >>

\* audio_stream.download(filename=temp_path), os.path.getsize(temp_path) and
\* model.transcribe(temp_path); a failure of any of them leaves the file behind
\* and returns from the fallback, whose local temp_path is then gone.
C_AltDownload(p) ==
    /\ req[p].pc = "a_download"
    /\ Use(p, req[p].temp_path)
    /\ \E ok \in BOOLEAN :
        req' = IF ok THEN [req EXCEPT ![p].pc = "a_unlink"]
               ELSE [req EXCEPT ![p].pc = "y_rmtree", ![p].temp_path = NoName]
    /\ UNCHANGED << pipeVars, uiVars >>

\* os.unlink(temp_path), then the fallback returns and its local is gone.
C_AltUnlink(p) ==
    /\ req[p].pc = "a_unlink"
    /\ \E fail \in BOOLEAN : Remove(p, req[p].temp_path, fail)
    /\ req' = [req EXCEPT ![p].pc = "y_rmtree", ![p].temp_path = NoName]
    /\ UNCHANGED << pipeVars, uiVars >>

\* finally: if temp_dir and os.path.exists(temp_dir): shutil.rmtree(temp_dir)
C_RmTree(p) ==
    /\ req[p].pc = "y_rmtree"
    /\ IF req[p].temp_dir # NoName /\ disk[req[p].temp_dir] # 0
       THEN \E fail \in BOOLEAN : Remove(p, req[p].temp_dir, fail)
       ELSE UNCHANGED << disk, foreign_access >>
    /\ req' = [req EXCEPT ![p] = AfterReturn]
    /\ UNCHANGED << pipeVars, uiVars >>

NextConc ==
    \E p \in Requests :
        \/ C_Save(p) \/ C_Decode(p) \/ C_Export(p) \/ C_Recognize(p)
        \/ C_RemoveVideo(p) \/ C_RemoveAudio(p)
        \/ C_Mkdtemp(p) \/ C_Download(p)
        \/ C_AltTempFile(p) \/ C_AltDownload(p) \/ C_AltUnlink(p)
        \/ C_RmTree(p)

SpecConc == Init /\ [][NextConc]_vars

\* ---------------------------------------------------------- specification

Next ==
    \/ StartUpload \/ U_Save \/ U_Decode \/ U_Export \/ U_Recognize \/ U_Assemble
    \/ U_Finally
    \/ StartURL \/ Y_Mkdtemp \/ Y_Extract \/ Y_Download \/ Y_Transcribe \/ Y_Assemble
    \/ Y_ExceptDownload \/ Y_Finally
    \/ A_Stream \/ A_TempFile \/ A_Download \/ A_Transcribe \/ A_Assemble
    \/ Store

Spec == Init /\ [][Next]_vars

\* ------------------------------------------------------------------ claims

\* C1: when a call to either entry point has returned, on every exit path, no
\* temporary file or directory that the call created still exists.
C1_NoArtifactRemains ==
    pc = "done" => fs = {}

\* The primary strategy ended in a yt-dlp DownloadError.
PrimaryDownloadError == Len(cause) >= 1 /\ cause[1] = "DownloadError"

\* The failures with which the fallback strategy can end.
FallbackFailures ==
    { "NoAudioStream", "FallbackException", "EmptyDownload", "ModelLoadFailed",
      "EngineFailed", "UnlinkFailed" }

\* C2: a URL request whose primary strategy fails with a download error attempts
\* the fallback exactly once; if the fallback fails too the request returns None;
\* no request makes more than two strategy attempts, one of each strategy.
C2_FallbackExactlyOnce ==
    /\ primary_attempts <= 1
    /\ fallback_attempts <= 1
    /\ primary_attempts + fallback_attempts <= 2
    /\ fallback_attempts = 1 => primary_attempts = 1
    /\ (pc = "done" /\ PrimaryDownloadError) => fallback_attempts = 1
    /\ (pc = "done" /\ PrimaryDownloadError /\ Len(cause) >= 2
            /\ cause[2] \in FallbackFailures) => ret = None

\* C2 witness: the primary failed with a download error, the fallback ran once,
\* failed as well, and the request returned None.
C2_Witness ==
    /\ pc = "done"
    /\ PrimaryDownloadError
    /\ fallback_attempts = 1
    /\ cause = << "DownloadError", "EmptyDownload" >>
    /\ ret = None

\* C3: an upload of a non-empty payload with a supported extension never returns
\* a transcript without segments: a returned transcript has at least one segment
\* and its first segment starts at 0.
C3_UploadHasFirstSegmentAtZero ==
    (entry = "upload" /\ video_file.size > 0 /\ video_file.ext \in Extensions
        /\ ret.kind = "transcript")
    => (Len(ret.segments) >= 1 /\ ret.segments[1].start = 0)

\* C3 witness: an upload of a non-empty payload has returned a transcript.
C3_Witness ==
    /\ pc = "done"
    /\ entry = "upload"
    /\ video_file.size > 0
    /\ ret.kind = "transcript"

\* C4: every transcript an entry point returns has a non-empty segment list.
C4_ReturnedTranscriptHasSegments ==
    (pc = "done" /\ ret.kind = "transcript") => Len(ret.segments) >= 1

\* C5: a failure while deleting a temporary artifact does not change the outcome:
\* the call returns what the pipeline had produced, transcript or failure.
C5_CleanupFailureKeepsOutcome ==
    (pc = "done" /\ cleanup_failed) => ret = pipeline_result

\* C6: an upload of a zero-length payload creates no temporary file and ends in
\* failure.
C6_EmptyUploadCreatesNothing ==
    (entry = "upload" /\ video_file.size = 0)
    => (created = {} /\ (pc = "done" => ret = None))

\* C7: audio decoded to duration 0 never reaches the transcription engine, and
\* the request ends in failure.
C7_ZeroDurationSkipsEngine ==
    (entry = "upload" /\ audio = 0)
    => (engine_calls = 0 /\ (pc = "done" => ret = None))

\* segs is sorted by start and every segment ends no earlier than it starts.
WellOrdered(segs) ==
    /\ \A i \in 1..Len(segs) : segs[i].end >= segs[i].start
    /\ \A i \in 1..Len(segs) : \A j \in 1..Len(segs) :
          i < j => segs[i].start <= segs[j].start

\* C8: the segments of every returned transcript are sorted by start and each
\* has end >= start.
C8_ReturnedSegmentsWellOrdered ==
    (pc = "done" /\ ret.kind = "transcript") => WellOrdered(ret.segments)

\* C9 as claimed: parsing the export line by line gives back exactly the
\* (start, text) pairs of the transcript, in order.
C9_RoundTripExact ==
    shown => ParseExport(transcript_text) =
                [ok |-> TRUE, pairs |-> Pairs(current_transcript.segments)]

\* No text of segs holds a line break.
SingleLineTexts(segs) ==
    \A i \in 1..Len(segs) : \A k \in 1..Len(segs[i].text) : segs[i].text[k] # "\n"

\* C9 as amended: when no segment text holds a line break, parsing the export
\* gives as many pairs as there are segments, in order, each with the segment's
\* text and with the segment's start rounded to hundredths of a second (so the
\* start itself when it has at most two decimals).
C9_RoundTripToHundredths ==
    (shown /\ SingleLineTexts(current_transcript.segments))
    => LET segs == current_transcript.segments
           p    == ParseExport(transcript_text)
       IN  /\ p.ok
           /\ Len(p.pairs) = Len(segs)
           /\ \A i \in 1..Len(segs) :
                /\ p.pairs[i].text = segs[i].text
                /\ p.pairs[i].start % 10 = 0
                /\ p.pairs[i].start - segs[i].start <= 5
                /\ segs[i].start - p.pairs[i].start <= 5

\* C9 witness: a two-segment transcript of single-line texts, one start with a
\* third decimal, has been exported and read back.
C9_Witness ==
    /\ shown
    /\ Len(current_transcript.segments) = 2
    /\ SingleLineTexts(current_transcript.segments)
    /\ current_transcript.segments[2].start = 1234
    /\ ParseExport(transcript_text).ok
    /\ ParseExport(transcript_text).pairs[2].start = 1230

\* The label l reads MM:SS for the start s (ms): two digits of seconds below 60,
\* minutes padded to two digits, and MM minutes SS seconds is the whole second
\* that s lies in.
IsLabelOf(l, s) ==
    /\ Len(l) >= 5
    /\ l[Len(l) - 2] = ":"
    /\ \A k \in 1..Len(l) : k = Len(l) - 2 \/ IsDigit(l[k])
    /\ LET mm == DecVal(SubSeq(l, 1, Len(l) - 3))
           ss == DecVal(SubSeq(l, Len(l) - 1, Len(l)))
       IN  /\ ss <= 59
           /\ (mm * 60 + ss) * 1000 <= s
           /\ s < (mm * 60 + ss + 1) * 1000
           /\ (Len(l) > 5 => l[1] # "0")

\* C10: every displayed label is MM:SS with MM = floor(s / 60) and
\* SS = floor(s mod 60), zero-padded, SS in 0..59; 125.7 gives 02:05, 0 gives
\* 00:00 and 59.999 gives 00:59.
C10_TimestampLabel ==
    shown =>
        /\ Len(labels) = Len(current_transcript.segments)
        /\ \A i \in 1..Len(labels) :
            LET s == current_transcript.segments[i].start
            IN  /\ IsLabelOf(labels[i], s)
                /\ s = 125700 => labels[i] = << "0", "2", ":", "0", "5" >>
                /\ s = 0 => labels[i] = << "0", "0", ":", "0", "0" >>
                /\ s = 59999 => labels[i] = << "0", "0", ":", "5", "9" >>

\* C10 witness: the start 125.7 has been displayed as 02:05.
C10_Witness ==
    /\ shown
    /\ Len(labels) = 1
    /\ current_transcript.segments[1].start = 125700
    /\ labels[1] = << "0", "2", ":", "0", "5" >>

\* The call has returned, or its caller has dealt with the returned value.
Returned == pc \in {"done", "returned"}

\* C11: the value a failed request returns identifies what failed, so requests
\* that failed for different kinds of cause return different values.  None is
\* what a request returns whose upload could not be saved (U_Save); no request
\* that failed for another kind of cause may then return None as well.
C11_FailureValueIdentifiesCause ==
    (Returned /\ ret.kind # "transcript" /\ cause # << >>)
    => (ret # None \/ cause[Len(cause)] = "SaveError")

\* The paths call p holds in its locals: those it is still going to read, write
\* or remove.
Pending(p) ==
    LET r == req[p]
    IN  { r.video_path, r.audio_path, r.temp_dir, r.temp_path } \ { NoName }

\* C12: in every interleaving of concurrent calls, the temporary artifacts of
\* different calls are disjoint: every path a call is still going to use exists
\* and was created by that call, no two calls have such a path in common, and no
\* call has read, overwritten or removed an artifact another call created.
C12_ArtifactsDisjoint ==
    /\ ~foreign_access
    /\ \A p \in Requests : \A n \in Pending(p) : disk[n] = p
    /\ \A p \in Requests : \A q \in Requests :
          p # q => Pending(p) \cap Pending(q) = {}

\* C12 witness: an upload call has removed its saved input and still holds its
\* WAV file while a URL call, in its fallback, holds a directory and a file.
C12_Witness ==
    \E p \in Requests : \E q \in Requests :
        /\ p # q
        /\ req[p].pc = "u_remove_audio"
        /\ req[p].audio_path # NoName
        /\ { n \in Names : disk[n] = p } = { req[p].audio_path }
        /\ req[q].pc = "a_unlink"
        /\ disk[req[q].temp_dir] = q
        /\ disk[req[q].temp_path] = q

\* The steps of the fallback strategy.
FallbackSteps == {"a_stream", "a_tempfile", "a_download", "a_transcribe", "a_assemble"}

\* C13: when the primary strategy has failed, the temporary directory it created
\* is gone before the fallback starts, so the artifacts of the failed strategy and
\* those of the fallback never exist at the same time.
C13_PrimaryArtifactsGoneBeforeFallback ==
    /\ pc \in FallbackSteps => (temp_dir = NoPath \/ temp_dir \notin fs)
    /\ ~({"dir", "alt"} \subseteq fs)

\* The primary strategy was attempted and failed while acquiring the audio:
\* with a download error (yt-dlp reports network, URL and extraction errors as
\* DownloadError) or with no audio file found after the download.
PrimaryAcquisitionFailed ==
    /\ entry = "url"
    /\ primary_attempts = 1
    /\ Len(cause) >= 1
    /\ cause[1] \in {"DownloadError", "NoAudioFile"}

\* C14: whatever the kind of the primary strategy's acquisition failure, the
\* fallback strategy is attempted before the request returns.
C14_EveryAcquisitionFailureFallsBack ==
    (Returned /\ PrimaryAcquisitionFailed) => fallback_attempts = 1

\* C15: a zero-byte download is a failure of the strategy that made it: the
\* engine is never invoked on it, and when the primary made it the fallback runs.
C15_EmptyDownloadIsAFailure ==
    /\ downloaded = "empty" => engine_calls = 0
    /\ (Returned /\ downloaded = "empty") => fallback_attempts = 1
    /\ (cause # << >> /\ cause[Len(cause)] = "EmptyDownload") => engine_calls = 0

\* How many times a removal was called on the artifact a.
RemovalsOf(a) == Cardinality({ i \in 1..Len(removals) : removals[i] = a })

\* C16: when the request has returned, the removal of every artifact it created
\* has been attempted exactly once, whatever happened to the other removals.
C16_EveryArtifactRemovedOnce ==
    Returned => \A a \in created : RemovalsOf(a) = 1

\* The stage of the pipeline a call is in, from its position and its outcome.
StageOf(at, outcome) ==
    IF at = "idle" THEN "Idle"
    ELSE IF at \in {"u_save", "y_mkdtemp", "y_extract", "y_download",
                    "y_except_download", "a_stream", "a_tempfile", "a_download"}
    THEN "Acquiring"
    ELSE IF at \in {"u_decode", "u_export"} THEN "Normalizing"
    ELSE IF at \in {"u_recognize", "y_transcribe", "a_transcribe"} THEN "Transcribing"
    ELSE IF at \in {"u_assemble", "y_assemble", "a_assemble"} THEN "Assembling"
    ELSE IF outcome.kind = "transcript" THEN "Done"
    ELSE "Failed"

\* The order of the stages on the way to Done.
StageRank(stage) ==
    CASE stage = "Idle" -> 0
      [] stage = "Acquiring" -> 1
      [] stage = "Normalizing" -> 2
      [] stage = "Transcribing" -> 3
      [] stage = "Assembling" -> 4
      [] stage = "Done" -> 5
      [] stage = "Failed" -> 6

\* A step stays in its stage (the fallback's second acquisition included), goes
\* to the next stage, or goes from an unfinished stage to Failed; Done and Failed
\* are never left.
StepInOrder(a, b) ==
    \/ b = a
    \/ a \notin {"Idle", "Done", "Failed"} /\ b = "Failed"
    \/ a \notin {"Done", "Failed"} /\ b # "Failed" /\ StageRank(b) = StageRank(a) + 1

DecodeOrEngineFailures ==
    { "DecodeFailed", "UnknownValueError", "RequestError", "ModelLoadFailed",
      "EngineFailed" }

\* C18: nothing but the acquisition is tried twice: an engine is invoked at most
\* once per request, and once a decode or an engine has failed the call is in
\* its cleanup or has returned: no acquisition step and no engine call follows.
C18_NoRetryAfterDecodeOrEngineFailure ==
    /\ engine_calls <= 1
    /\ (\E i \in 1..Len(cause) : cause[i] \in DecodeOrEngineFailures)
       => pc \in {"u_finally", "y_finally", "done", "returned"}

\* C18 witness: the engine failed in the fallback, after one invocation, and the
\* request returned failure.
C18_Witness ==
    /\ pc = "done"
    /\ cause = << "DownloadError", "EngineFailed" >>
    /\ engine_calls = 1
    /\ ret = None

\* C19: the entry points leave the shared session state alone (transcripts,
\* current_transcript, script_content): it changes only when the caller stores a
\* transcript that a call has returned.
C19_OnlyTheCallerStores ==
    [][<< transcripts, current_transcript, script_content >>'
          # << transcripts, current_transcript, script_content >>
       => /\ pc = "done" /\ pc' = "returned"
          /\ ret.kind = "transcript"
          /\ transcripts' = Append(transcripts, ret)
          /\ current_transcript' = ret
          /\ script_content' = script_content]_vars

\* C19 witness: a call has returned a transcript and the caller has stored it.
C19_Witness ==
    /\ pc = "returned"
    /\ ret.kind = "transcript"
    /\ transcripts = << ret >>
    /\ current_transcript = ret

\* C20: the fallback is attempted only after the primary was attempted and
\* failed with a download error in the same request; once the primary download
\* has succeeded the fallback is never started, whatever happens later, and
\* exactly one strategy has run.
C20_FallbackOnlyAfterPrimaryFailure ==
    /\ (fallback_attempts >= 1 \/ pc \in FallbackSteps)
       => (primary_attempts = 1 /\ PrimaryDownloadError)
    /\ downloaded # "none"
       => /\ pc \notin FallbackSteps \cup {"y_except_download"}
          /\ fallback_attempts = 0
          /\ primary_attempts = 1

\* C20 witness: the primary download succeeded, the engine then failed, and the
\* request returned without the fallback.
C20_Witness ==
    /\ pc = "done"
    /\ downloaded = "nonempty"
    /\ cause = << "EngineFailed" >>
    /\ fallback_attempts = 0
    /\ ret = None

\* C21: a transcript returned by a URL path holds exactly the segments the
\* engine returned: as many, in the same order, each with its start, end and
\* text unchanged and with an empty word list where the engine gave none.
C21_UrlSegmentsAreTheEngineSegments ==
    (Returned /\ entry = "url" /\ ret.kind = "transcript")
    => /\ Len(ret.segments) = Len(result)
       /\ \A i \in 1..Len(result) :
            /\ ret.segments[i].start = result[i].start
            /\ ret.segments[i].end = result[i].end
            /\ ret.segments[i].text = result[i].text
            /\ ret.segments[i].words = << >>

\* C21 witness: the engine returned two segments with decreasing starts and the
\* call returned them as its transcript, in the engine's order.
C21_Witness ==
    /\ pc = "done"
    /\ entry = "url"
    /\ ret.kind = "transcript"
    /\ Len(result) = 2
    /\ result[1].start > result[2].start
    /\ Len(ret.segments) = 2
    /\ ret.segments[1].start = result[1].start

\* current_transcript is None or the last element of the transcripts history.
CurrentIsLastOrNone ==
    \/ current_transcript = None
    \/ /\ Len(transcripts) >= 1
       /\ current_transcript = transcripts[Len(transcripts)]

\* What one step may do to the history: nothing, or, when the caller deals with
\* a returned transcript, append exactly that transcript and make it current; a
\* failed request changes neither.
HistoryStep ==
    \/ UNCHANGED << transcripts, current_transcript >>
    \/ /\ pc = "done"
       /\ ret.kind = "transcript"
       /\ transcripts' = Append(transcripts, ret)
       /\ current_transcript' = ret

\* C22: after any sequence of requests of one session, current_transcript is
\* None or the last element of transcripts; a failed request leaves both
\* unchanged and a successful one appends exactly one element.
C22_CurrentIsLastOfHistory ==
    []CurrentIsLastOrNone /\ [][HistoryStep]_vars

\* C22 witness: after two successful requests a third one failed and the caller
\* has dealt with it: the history has two elements and the last one is current.
C22_Witness ==
    /\ pc = "returned"
    /\ ret = None
    /\ Len(transcripts) = 2
    /\ transcripts[1] # transcripts[2]
    /\ current_transcript = transcripts[2]

\* C23: after any sequence of storyboard operations from the default scenes
\* (add, move up, move down, delete), the scenes have pairwise distinct ids.
C23_SceneIdsDistinct ==
    \A i \in 1..Len(storyboard_scenes) : \A j \in 1..Len(storyboard_scenes) :
        i # j => storyboard_scenes[i].id # storyboard_scenes[j].id

====
